---- MODULE Spec2Model ----
(***************************************************************************)
(* teloscore: comparison-scoring of telomeric TVR consensus sequences.     *)
(*                                                                         *)
(* The module models src/teloscore/scoring.py (the two scoring policies,   *)
(* the log-compression encoder, the normalised pairwise score) and         *)
(* src/teloscore/compare.py (loading the two sample files, the all-pairs   *)
(* matrix loop and the output table).                                      *)
(*                                                                         *)
(* Strings of motif letters are sequences of one-character strings.        *)
(* A Python float that is the quotient of two small integers is kept as    *)
(* the reduced fraction <<num, den>>: IEEE division is correctly rounded,  *)
(* so two such quotients are equal floats exactly when the fractions are   *)
(* equal.                                                                  *)
(***************************************************************************)
EXTENDS Integers, Sequences, FiniteSets, TLC

VARIABLES
    scoring,         \* which policy object was constructed: 1 (Scoring1) or 2 (Scoring2)
    SCORING_MATRIX,  \* self.SCORING_MATRIX, built once in __init__
    seq1, seq2,      \* arguments of the last score_seqs call
    result,          \* what that call returned (or the exception it raised)
    enc_base,        \* COMPRESSION_LOG_BASE of the encoder under test, <<p, q>> for p/q
    enc_in,          \* argument of the last encode_seq call
    enc_out,         \* what that call returned
    fmt_seq1, fmt_seq2, \* sequences handed to the last _fmt_alignment call
    fmt_cigar,       \* the encoded trace (cigar.seq) decoded for that call
    fmt_out,         \* what that call returned (or the exception it raised)
    file1, file2,    \* rows of the two input TSV files
    pc,              \* position inside compare_samples; "read_failed" and "loop_failed"
                     \* are the steps an exception left it from
    f1_arms, f2_arms,\* loaded allele records
    matrix,          \* matrix[j][i], rows are sample-2 alleles
    i, j,            \* loop indices of _compute_matrix (1-based)
    log,             \* records emitted through logger.info, in order
    out,             \* content of the output file, NoFile until it is opened
    err              \* exception that aborted compare_samples, "" if none

vars == <<scoring, SCORING_MATRIX, seq1, seq2, result, enc_base, enc_in, enc_out,
          fmt_seq1, fmt_seq2, fmt_cigar, fmt_out,
          file1, file2, pc, f1_arms, f2_arms, matrix, i, j, log, out, err>>

----------------------------------------------------------------------------
(* Bounds of the model *)

MaxLen == 3       \* longest sequence handed to score_seqs
MaxEncLen == 8    \* longest sequence handed to encode_seq
MaxRows1 == 2     \* most rows in the first sample file
MaxRows2 == 2     \* most rows in the second sample file
MaxOps == 2       \* most items in a trace handed to _fmt_alignment

NegInf == -(1000 * 1000) \* "minus infinity" of the alignment recurrences

----------------------------------------------------------------------------
(* Small helpers *)

Max(a, b) == IF a >= b THEN a ELSE b

RECURSIVE Gcd(_, _)
Gcd(a, b) == IF b = 0 THEN a ELSE Gcd(b, a % b)

\* the float n / d for n >= 0, d > 0, as a reduced fraction
Frac(n, d) == LET g == Gcd(n, d) IN <<n \div g, d \div g>>

RECURSIVE Pow(_, _)
Pow(b, e) == IF e = 0 THEN 1 ELSE b * Pow(b, e - 1)

RECURSIVE SumSeq(_)
SumSeq(s) == IF s = <<>> THEN 0 ELSE Head(s) + SumSeq(Tail(s))

RECURSIVE Repeat(_, _)
Repeat(c, n) == IF n <= 0 THEN <<>> ELSE <<c>> \o Repeat(c, n - 1)

SeqsUpTo(S, n) == UNION {[1..k -> S] : k \in 1..n}

Range(s) == {s[k] : k \in 1..Len(s)}

----------------------------------------------------------------------------
(* Scoring policies: class constants of Scoring1 and Scoring2 *)

SCORING_ALPHABET ==
    <<"A", "C", "D", "E", "F", "G", "H", "I", "K", "L",
      "M", "N", "P", "R", "S", "Q", "T", "V", "W", "Y">>

Alphabet == Range(SCORING_ALPHABET)

CANONICAL_LETTER == "C"
CANONICAL_INDEL_LETTER == "T"
DUBIOUS_LETTERS == {"V", "W", "Y"}

MATCH_SCORE == 5
CANONICAL_MATCH_SCORE == 1
CANONICAL_VS_INDEL_MISMATCH_SCORE == -1
DUBIOUS_MATCH_SCORE == 2
MISMATCH_SCORE == -4

GAP_OPEN_PENALTY(p) == 3
GAP_EXTEND_PENALTY(p) == IF p = 1 THEN 1 ELSE 2

\* COMPRESSION_LOG_BASE as the fraction <<p, q>>
COMPRESSION_LOG_BASE(p) == IF p = 1 THEN <<5, 1>> ELSE <<4, 1>>

\* SCORE_LOG_THRESHOLD as a fraction: 0.8 and 0.6
SCORE_LOG_THRESHOLD(p) == IF p = 1 THEN <<4, 5>> ELSE <<3, 5>>

\* parasail.matrix_create(alphabet, match, mismatch)
matrix_create(match, mismatch) ==
    [a \in Alphabet |-> [b \in Alphabet |-> IF a = b THEN match ELSE mismatch]]

\* m[x, y] = v
MatrixSet(m, x, y, v) == [m EXCEPT ![x][y] = v]

Scoring1_build_scoring_matrix ==
    MatrixSet(matrix_create(MATCH_SCORE, MISMATCH_SCORE),
              CANONICAL_LETTER, CANONICAL_LETTER, CANONICAL_MATCH_SCORE)

\* variant: the canonical self-match override is left out
Scoring2_build_scoring_matrix_flat ==
    LET m0 == matrix_create(MATCH_SCORE, MISMATCH_SCORE)
        m2 == MatrixSet(m0, CANONICAL_LETTER, CANONICAL_INDEL_LETTER,
                        CANONICAL_VS_INDEL_MISMATCH_SCORE)
        m3 == MatrixSet(m2, CANONICAL_INDEL_LETTER, CANONICAL_LETTER,
                        CANONICAL_VS_INDEL_MISMATCH_SCORE)
    IN  [a \in Alphabet |-> [b \in Alphabet |->
            IF a = b /\ a \in DUBIOUS_LETTERS THEN DUBIOUS_MATCH_SCORE ELSE m3[a][b]]]

Scoring2_build_scoring_matrix ==
    LET m0 == matrix_create(MATCH_SCORE, MISMATCH_SCORE)
        m1 == MatrixSet(m0, CANONICAL_LETTER, CANONICAL_LETTER, CANONICAL_MATCH_SCORE)
        m2 == MatrixSet(m1, CANONICAL_LETTER, CANONICAL_INDEL_LETTER,
                        CANONICAL_VS_INDEL_MISMATCH_SCORE)
        m3 == MatrixSet(m2, CANONICAL_INDEL_LETTER, CANONICAL_LETTER,
                        CANONICAL_VS_INDEL_MISMATCH_SCORE)
    IN  [a \in Alphabet |-> [b \in Alphabet |->
            IF a = b /\ a \in DUBIOUS_LETTERS THEN DUBIOUS_MATCH_SCORE ELSE m3[a][b]]]

build_scoring_matrix(p) ==
    IF p = 1 THEN Scoring1_build_scoring_matrix ELSE Scoring2_build_scoring_matrix

\* Scoring2.MATCH_SCORES: (group of letters, weight), in insertion order
MATCH_SCORES ==
    << <<{CANONICAL_LETTER}, CANONICAL_MATCH_SCORE>>,
       <<DUBIOUS_LETTERS, MATCH_SCORE>>,
       <<(Alphabet \ {CANONICAL_LETTER}) \ DUBIOUS_LETTERS, MATCH_SCORE>> >>

\* Scoring2.match_score_for_letter: first group holding x; -1 stands for the ValueError
RECURSIVE MatchScoreFrom(_, _)
MatchScoreFrom(x, k) ==
    IF k > Len(MATCH_SCORES) THEN -1
    ELSE IF x \in MATCH_SCORES[k][1] THEN MATCH_SCORES[k][2]
    ELSE MatchScoreFrom(x, k + 1)

match_score_for_letter(x) == MatchScoreFrom(x, 1)

----------------------------------------------------------------------------
(* The global aligner, parasail.nw_trace_striped_32: Needleman-Wunsch with *)
(* affine gaps (a gap of length L costs open + (L-1)*extend).  A letter    *)
(* outside the matrix alphabet maps to parasail's wildcard column, which   *)
(* scores 0 against everything.                                            *)

Subst(m, a, b) == IF a \in Alphabet /\ b \in Alphabet THEN m[a][b] ELSE 0

\* H of row 0: H[0][0] = 0, H[0][c] = -(open + (c-1)*ext); index c+1 holds column c
NWRow0(dbs, open, ext) ==
    [c \in 1..(Len(dbs) + 1) |-> IF c = 1 THEN 0 ELSE -(open + (c - 2) * ext)]

\* fills row r from column c on; H, F hold columns 0..c-1, E is E[r][c-1]
RECURSIVE NWFill(_, _, _, _, _, _, _, _, _, _)
NWFill(m, qc, dbs, open, ext, prevH, prevF, c, HFrow, E) ==
    IF c > Len(dbs) THEN HFrow
    ELSE LET H == HFrow[1]
             F == HFrow[2]
             e == Max(E - ext, H[c] - open)
             f == Max(prevF[c + 1] - ext, prevH[c + 1] - open)
             d == prevH[c] + Subst(m, qc, dbs[c])
             h == Max(d, Max(e, f))
         IN  NWFill(m, qc, dbs, open, ext, prevH, prevF, c + 1,
                    <<Append(H, h), Append(F, f)>>, e)

\* rows r..Len(qs), given row r-1
RECURSIVE NWRows(_, _, _, _, _, _, _, _)
NWRows(m, qs, dbs, open, ext, r, prevH, prevF) ==
    IF r > Len(qs) THEN prevH[Len(dbs) + 1]
    ELSE LET h0 == -(open + (r - 1) * ext)
             row == NWFill(m, qs[r], dbs, open, ext, prevH, prevF, 1,
                           << <<h0>>, <<h0>> >>, NegInf)
         IN  NWRows(m, qs, dbs, open, ext, r + 1, row[1], row[2])

\* r.score
nw_score(qs, dbs, open, ext, m) ==
    NWRows(m, qs, dbs, open, ext, 1, NWRow0(dbs, open, ext),
           [c \in 1..(Len(dbs) + 1) |-> NegInf])

----------------------------------------------------------------------------
(* score_seqs of both policies *)

\* qs, dbs = (seq1, seq2) if len(seq1) <= len(seq2) else (seq2, seq1)
QueryOf(s1, s2) == IF Len(s1) <= Len(s2) THEN s1 ELSE s2
DatabaseOf(s1, s2) == IF Len(s1) <= Len(s2) THEN s2 ELSE s1

\* variant: the canonical test of Scoring1 inverted
LetterWeight_inverted(p, qc) ==
    IF p = 1 THEN (IF qc # CANONICAL_LETTER THEN CANONICAL_MATCH_SCORE ELSE MATCH_SCORE)
    ELSE IF match_score_for_letter(qc) = MATCH_SCORE THEN CANONICAL_MATCH_SCORE
    ELSE match_score_for_letter(qc)

\* the per-letter weight each policy sums into total_possible_score
LetterWeight(p, qc) ==
    IF p = 1 THEN (IF qc = CANONICAL_LETTER THEN CANONICAL_MATCH_SCORE ELSE MATCH_SCORE)
    ELSE match_score_for_letter(qc)

total_possible_score(p, qs) == SumSeq([k \in 1..Len(qs) |-> LetterWeight(p, qs[k])])

\* the letters on which the policy's weight lookup raises
RaisesOn(p, qs) == p = 2 /\ \E k \in 1..Len(qs) : match_score_for_letter(qs[k]) = -1

\* variant: the quotient is returned without the max(..., 0.0) floor
score_seqs_unfloored(p, m, s1, s2) ==
    LET qs == QueryOf(s1, s2)
        dbs == DatabaseOf(s1, s2)
        raw == nw_score(qs, dbs, GAP_OPEN_PENALTY(p), GAP_EXTEND_PENALTY(p), m)
        total == SumSeq([k \in 1..Len(qs) |->
                     IF p = 1
                     THEN (IF qs[k] = CANONICAL_LETTER THEN CANONICAL_MATCH_SCORE
                           ELSE MATCH_SCORE)
                     ELSE match_score_for_letter(qs[k])])
    IN  IF p = 2 /\ \E k \in 1..Len(qs) : match_score_for_letter(qs[k]) = -1
        THEN [status |-> "ValueError", raw |-> raw, total |-> 0, final_score |-> <<0, 1>>]
        ELSE IF total = 0
        THEN [status |-> "ZeroDivisionError", raw |-> raw, total |-> 0,
              final_score |-> <<0, 1>>]
        ELSE [status |-> "ok", raw |-> raw, total |-> total,
              final_score |-> <<raw, total>>]

score_seqs(p, m, s1, s2) ==
    LET qs == QueryOf(s1, s2)
        dbs == DatabaseOf(s1, s2)
        raw == nw_score(qs, dbs, GAP_OPEN_PENALTY(p), GAP_EXTEND_PENALTY(p), m)
        total == total_possible_score(p, qs)
    IN  IF RaisesOn(p, qs)
        THEN [status |-> "ValueError", raw |-> raw, total |-> 0, final_score |-> <<0, 1>>]
        ELSE IF total = 0
        THEN [status |-> "ZeroDivisionError", raw |-> raw, total |-> 0,
              final_score |-> <<0, 1>>]
        ELSE [status |-> "ok", raw |-> raw, total |-> total,
              final_score |-> Frac(Max(raw, 0), total)]

----------------------------------------------------------------------------
(* BaseScoringSystem.encode_seq *)

\* round(math.log(n, p/q)) for n >= 1 and p/q > 1, round-half-to-even:
\* the least k with log(n) < k + 1/2, or log(n) = k + 1/2 and k even,
\* where log(n) < k + 1/2 iff n^2 * q^(2k+1) < p^(2k+1)
RECURSIVE RoundLogFrom(_, _, _)
RoundLogFrom(n, base, k) ==
    LET lhs == n * n * Pow(base[2], 2 * k + 1)
        rhs == Pow(base[1], 2 * k + 1)
    IN  IF lhs < rhs \/ (lhs = rhs /\ k % 2 = 0) THEN k
        ELSE RoundLogFrom(n, base, k + 1)

RoundLog(n, base) == RoundLogFrom(n, base, 0)

\* int(1.0 + round(math.log(current_count, COMPRESSION_LOG_BASE)))
RunCopies(n, base) == 1 + RoundLog(n, base)

\* the loop "for c in (*seq[1:], '')": k is the position of c in seq, Len(seq)+1 for ''
RECURSIVE EncodeLoop(_, _, _, _, _, _)
EncodeLoop(seq, base, k, current_char, current_count, revised_seq) ==
    IF k > Len(seq) + 1 THEN revised_seq
    ELSE IF k <= Len(seq) /\ seq[k] = current_char
    THEN EncodeLoop(seq, base, k + 1, current_char, current_count + 1, revised_seq)
    ELSE EncodeLoop(seq, base, k + 1, (IF k <= Len(seq) THEN seq[k] ELSE ""), 1,
                    revised_seq \o Repeat(current_char, RunCopies(current_count, base)))

\* variant: current_count is not reset to 1 when a new run starts
RECURSIVE EncodeLoopNoReset(_, _, _, _, _, _)
EncodeLoopNoReset(seq, base, k, current_char, current_count, revised_seq) ==
    IF k > Len(seq) + 1 THEN revised_seq
    ELSE IF k <= Len(seq) /\ seq[k] = current_char
    THEN EncodeLoopNoReset(seq, base, k + 1, current_char, current_count + 1, revised_seq)
    ELSE EncodeLoopNoReset(seq, base, k + 1, (IF k <= Len(seq) THEN seq[k] ELSE ""),
                           current_count + 1,
                           revised_seq \o Repeat(current_char, RunCopies(current_count, base)))

encode_seq_no_reset(seq, base) == EncodeLoopNoReset(seq, base, 2, seq[1], 1, <<>>)

encode_seq(seq, base) == EncodeLoop(seq, base, 2, seq[1], 1, <<>>)

----------------------------------------------------------------------------
(* Loading: BaseScoringSystem.build_telo_from_row and _read_sample_files *)

Absent == "<absent>"   \* the row dict has no such key

\* rows a csv.DictReader can hand over; a column is Absent or a string
Rows ==
    { [hash_chr |-> "chr1p", chr |-> Absent, allele_id |-> "1",
       tvr_consensus |-> <<"C", "C", "D">>, tvr_len |-> "3"],
      [hash_chr |-> Absent, chr |-> "chr2q", allele_id |-> "2i",
       tvr_consensus |-> <<"D", "T", "C", "D">>, tvr_len |-> Absent],
      [hash_chr |-> "chr3p", chr |-> Absent, allele_id |-> "3",
       tvr_consensus |-> <<"D">>, tvr_len |-> "0"],
      [hash_chr |-> Absent, chr |-> Absent, allele_id |-> "4",
       tvr_consensus |-> <<"C", "D">>, tvr_len |-> "2"],
      [hash_chr |-> "chr5p", chr |-> Absent, allele_id |-> "5",
       tvr_consensus |-> <<"D", "B", "D">>, tvr_len |-> "3"] }

Files(n) == {<<>>} \cup SeqsUpTo(Rows, n)

\* variant: a row without the tvr_len column is dropped as well
filter_row_strict(r) == ~(r.tvr_len = "0") /\ r.tvr_len # Absent

\* filter_row: not (r.get("tvr_len") == "0")
filter_row(r) == ~(r.tvr_len = "0")

\* row.get("#chr", row.get("chr", ""))
ArmOf(row) ==
    IF row.hash_chr # Absent THEN row.hash_chr
    ELSE IF row.chr # Absent THEN row.chr
    ELSE ""

NoTelo == [arm |-> "", allele_id |-> "", tvr_consensus |-> <<>>,
           tvr_consensus_encoded |-> <<>>]

\* variant: the "if not arm: raise ValueError" check is left out
build_telo_from_row_unchecked(p, row) ==
    IF row.tvr_consensus = Absent THEN [status |-> "KeyError", telo |-> NoTelo]
    ELSE IF row.allele_id = Absent THEN [status |-> "KeyError", telo |-> NoTelo]
    ELSE IF Len(row.tvr_consensus) = 0 THEN [status |-> "AssertionError", telo |-> NoTelo]
    ELSE [status |-> "ok",
          telo |-> [arm |-> ArmOf(row),
                    allele_id |-> row.allele_id,
                    tvr_consensus |-> row.tvr_consensus,
                    tvr_consensus_encoded |->
                        encode_seq(row.tvr_consensus, COMPRESSION_LOG_BASE(p))]]

build_telo_from_row(p, row) ==
    IF row.tvr_consensus = Absent THEN [status |-> "KeyError", telo |-> NoTelo]
    ELSE IF ArmOf(row) = "" THEN [status |-> "ValueError", telo |-> NoTelo]
    ELSE IF row.allele_id = Absent THEN [status |-> "KeyError", telo |-> NoTelo]
    ELSE IF Len(row.tvr_consensus) = 0 THEN [status |-> "AssertionError", telo |-> NoTelo]
    ELSE [status |-> "ok",
          telo |-> [arm |-> ArmOf(row),
                    allele_id |-> row.allele_id,
                    tvr_consensus |-> row.tvr_consensus,
                    tvr_consensus_encoded |->
                        encode_seq(row.tvr_consensus, COMPRESSION_LOG_BASE(p))]]

\* filter(filter_row, reader)
KeptRows(file) == SelectSeq(file, filter_row)

\* [scoring.build_telo_from_row(row) for row in filter(filter_row, reader)]
BuildAll(p, file) ==
    LET kept == KeptRows(file)
    IN  [k \in 1..Len(kept) |-> build_telo_from_row(p, kept[k])]

\* the exception of the first row that raises, "" if none does
FirstError(built) ==
    IF \A k \in 1..Len(built) : built[k].status = "ok" THEN ""
    ELSE built[CHOOSE k \in 1..Len(built) :
                   /\ built[k].status # "ok"
                   /\ \A l \in 1..(k - 1) : built[l].status = "ok"].status

Telos(built) == [k \in 1..Len(built) |-> built[k].telo]

\* _fmt_allele: f"({allele_id}) {arm}"
fmt_allele(telo) == <<telo.allele_id, telo.arm>>

----------------------------------------------------------------------------
(* utils.decode_cigar and compare._fmt_alignment *)

\* _decode_cigar_item: (item & 15, item >> 4), for item >= 0
decode_cigar_item(item) == <<item % 16, item \div 16>>

decode_cigar(encoded_cigar) ==
    [k \in 1..Len(encoded_cigar) |-> decode_cigar_item(encoded_cigar[k])]

\* the locals of _fmt_alignment; status "IndexError" once a pop(0) hit an empty list
FmtStart(qs, dbs) ==
    [status |-> "ok", chars1 |-> <<>>, line_chars |-> <<>>, chars2 |-> <<>>,
     s1 |-> qs, s2 |-> dbs]

FmtRaise(st) == [st EXCEPT !.status = "IndexError"]

\* one pass of the body of "for _ in range(count)" under operation op
FmtUnit(st, op) ==
    IF op \in {0, 7, 8}
    THEN IF st.s1 = <<>> \/ st.s2 = <<>> THEN FmtRaise(st)
         ELSE [st EXCEPT !.chars1 = Append(@, Head(st.s1)),
                         !.line_chars = Append(@, IF op # 8 THEN "|" ELSE "X"),
                         !.chars2 = Append(@, Head(st.s2)),
                         !.s1 = Tail(@), !.s2 = Tail(@)]
    ELSE IF op = 1
    THEN IF st.s1 = <<>> THEN FmtRaise(st)
         ELSE [st EXCEPT !.chars1 = Append(@, Head(st.s1)),
                         !.line_chars = Append(@, " "),
                         !.chars2 = Append(@, "-"),
                         !.s1 = Tail(@)]
    ELSE IF op \in {2, 3}
    THEN IF st.s2 = <<>> THEN FmtRaise(st)
         ELSE [st EXCEPT !.chars1 = Append(@, "-"),
                         !.line_chars = Append(@, " "),
                         !.chars2 = Append(@, Head(st.s2)),
                         !.s2 = Tail(@)]
    ELSE IF op = 4
    THEN IF st.s1 = <<>> THEN FmtRaise(st)
         ELSE [st EXCEPT !.s1 = Tail(@)]
    ELSE st     \* no branch of the if/elif chain matches: the item is skipped

\* "for _ in range(count)"
RECURSIVE FmtRun(_, _, _)
FmtRun(st, op, count) ==
    IF count <= 0 \/ st.status # "ok" THEN st
    ELSE FmtRun(FmtUnit(st, op), op, count - 1)

\* "for op, count in cigar", from item k on
RECURSIVE FmtLoop(_, _, _)
FmtLoop(st, cigar, k) ==
    IF k > Len(cigar) \/ st.status # "ok" THEN st
    ELSE FmtLoop(FmtRun(st, cigar[k][1], cigar[k][2]), cigar, k + 1)

\* _fmt_alignment(seq1, seq2, cigar): lines holds the three lines of the returned
\* string; s1 and s2 are what was left unconsumed of the two sequences
fmt_alignment(s1, s2, cigar) ==
    LET st == FmtLoop(FmtStart(QueryOf(s1, s2), DatabaseOf(s1, s2)), cigar, 1)
    IN  IF st.status = "ok"
        THEN [status |-> "ok", lines |-> <<st.chars1, st.line_chars, st.chars2>>,
              s1 |-> st.s1, s2 |-> st.s2]
        ELSE [status |-> st.status, lines |-> <<>>, s1 |-> st.s1, s2 |-> st.s2]

----------------------------------------------------------------------------
(* States *)

NoFile == <<"<not opened>">>
NoResult == [status |-> "none", raw |-> 0, total |-> 0, final_score |-> <<0, 1>>]

ScoreLetters == {"C", "T", "D", "V"}   \* canonical, indel variant, plain, dubious
EncLetters == {"C", "D"}
Bases == {<<3, 2>>, <<2, 1>>, <<5, 2>>, <<3, 1>>, <<4, 1>>, <<5, 1>>}

ScoreInputs == SeqsUpTo(ScoreLetters, MaxLen)
EncInputs == SeqsUpTo(EncLetters, MaxEncLen)

\* BaseScoringSystem.__init__ of either policy
Constructed ==
    /\ scoring \in {1, 2}
    /\ SCORING_MATRIX = build_scoring_matrix(scoring)

ScoreIdle == seq1 = <<>> /\ seq2 = <<>> /\ result = NoResult
EncIdle == enc_in = <<>> /\ enc_out = <<>>
NoFmt == [status |-> "none", lines |-> <<>>, s1 |-> <<>>, s2 |-> <<>>]
FmtIdle == fmt_seq1 = <<>> /\ fmt_seq2 = <<>> /\ fmt_cigar = <<>> /\ fmt_out = NoFmt
CompareIdle ==
    /\ file1 = <<>> /\ file2 = <<>> /\ pc = "idle"
    /\ f1_arms = <<>> /\ f2_arms = <<>> /\ matrix = <<>>
    /\ i = 1 /\ j = 1 /\ log = <<>> /\ out = NoFile /\ err = ""

scoreVars == <<seq1, seq2, result>>
encVars == <<enc_in, enc_out>>
fmtVars == <<fmt_seq1, fmt_seq2, fmt_cigar, fmt_out>>
compareVars == <<file1, file2, pc, f1_arms, f2_arms, matrix, i, j, log, out, err>>

----------------------------------------------------------------------------
(* SpecScore: score_seqs called on one policy object *)

InitScore ==
    /\ Constructed
    /\ enc_base = COMPRESSION_LOG_BASE(scoring)
    /\ seq1 \in ScoreInputs
    /\ seq2 \in ScoreInputs
    /\ result = NoResult
    /\ EncIdle /\ FmtIdle /\ CompareIdle

\* scoring.score_seqs(seq1, seq2)
ScoreSeqs ==
    /\ result.status = "none"
    /\ result' = score_seqs(scoring, SCORING_MATRIX, seq1, seq2)
    /\ UNCHANGED <<scoring, SCORING_MATRIX, seq1, seq2, enc_base, encVars, fmtVars,
                   compareVars>>

NextScore == ScoreSeqs

SpecScore == InitScore /\ [][NextScore]_vars

----------------------------------------------------------------------------
(* SpecEncode: encode_seq called on an encoder of some log base *)

InitEncode ==
    /\ Constructed
    /\ enc_base \in Bases
    /\ enc_in \in EncInputs
    /\ enc_out = <<>>
    /\ ScoreIdle /\ FmtIdle /\ CompareIdle

\* scoring.encode_seq(enc_in)
EncodeSeq ==
    /\ enc_out = <<>>
    /\ enc_out' = encode_seq(enc_in, enc_base)
    /\ UNCHANGED <<scoring, SCORING_MATRIX, enc_base, enc_in, scoreVars, fmtVars,
                   compareVars>>

NextEncode == EncodeSeq

SpecEncode == InitEncode /\ [][NextEncode]_vars

----------------------------------------------------------------------------
(* SpecFmt: _fmt_alignment called on two sequences and a decoded trace *)

FmtSeqs == { <<"C">>, <<"C", "D">>, <<"D", "C", "D">> }

\* operation codes tried: the seven the formatter handles, and 5 (hard clip)
FmtOpCodes == {0, 1, 2, 3, 4, 5, 7, 8}
FmtCounts == {1, 2}

\* encoded items, (count << 4) | op
FmtItems == {16 * n + op : op \in FmtOpCodes, n \in FmtCounts}

FmtCigars == {<<>>} \cup SeqsUpTo(FmtItems, MaxOps)

InitFmt ==
    /\ Constructed
    /\ enc_base = COMPRESSION_LOG_BASE(scoring)
    /\ fmt_seq1 \in FmtSeqs
    /\ fmt_seq2 \in FmtSeqs
    /\ fmt_cigar \in FmtCigars
    /\ fmt_out = NoFmt
    /\ ScoreIdle /\ EncIdle /\ CompareIdle

\* _fmt_alignment(fmt_seq1, fmt_seq2, decode_cigar(fmt_cigar))
FmtAlignment ==
    /\ fmt_out.status = "none"
    /\ fmt_out' = fmt_alignment(fmt_seq1, fmt_seq2, decode_cigar(fmt_cigar))
    /\ UNCHANGED <<scoring, SCORING_MATRIX, enc_base, scoreVars, encVars,
                   fmt_seq1, fmt_seq2, fmt_cigar, compareVars>>

NextFmt == FmtAlignment

SpecFmt == InitFmt /\ [][NextFmt]_vars

----------------------------------------------------------------------------
(* Spec: compare_samples(scoring, file1, file2, out_file) *)

Init ==
    /\ Constructed
    /\ enc_base = COMPRESSION_LOG_BASE(scoring)
    /\ ScoreIdle /\ EncIdle /\ FmtIdle
    /\ file1 \in Files(MaxRows1)
    /\ file2 \in Files(MaxRows2)
    /\ pc = "read"
    /\ f1_arms = <<>> /\ f2_arms = <<>> /\ matrix = <<>>
    /\ i = 1 /\ j = 1 /\ log = <<>> /\ out = NoFile /\ err = ""

\* a > b for two fractions with positive denominators
FracGt(a, b) == a[1] * b[2] > b[1] * a[2]

\* [[0.0 for _j in f1_arms] for _i in f2_arms]
ZeroMatrix(n1, n2) == [jj \in 1..n2 |-> [ii \in 1..n1 |-> <<0, 1>>]]

\* variant: the header lists the sample-2 labels
OutTable_header2(arms1, arms2, mat) ==
    << <<"">> \o [k \in 1..Len(arms2) |-> fmt_allele(arms2[k])] >>
    \o [jj \in 1..Len(arms2) |-> <<fmt_allele(arms2[jj])>> \o mat[jj]]

\* the table _write_outfile writes: a sequence of lines, each a sequence of fields
OutTable(arms1, arms2, mat) ==
    << <<"">> \o [k \in 1..Len(arms1) |-> fmt_allele(arms1[k])] >>
    \o [jj \in 1..Len(arms2) |-> <<fmt_allele(arms2[jj])>> \o mat[jj]]

\* step 1: _read_sample_files; file2 is only read once file1 was loaded
ReadSampleFiles ==
    /\ pc = "read"
    /\ LET b1 == BuildAll(scoring, file1)
           b2 == BuildAll(scoring, file2)
       IN  IF FirstError(b1) # ""
           THEN /\ pc' = "read_failed" /\ err' = FirstError(b1)
                /\ UNCHANGED <<f1_arms, f2_arms>>
           ELSE IF FirstError(b2) # ""
           THEN /\ pc' = "read_failed" /\ err' = FirstError(b2)
                /\ UNCHANGED <<f1_arms, f2_arms>>
           ELSE /\ pc' = "alloc" /\ err' = ""
                /\ f1_arms' = Telos(b1)
                /\ f2_arms' = Telos(b2)
    /\ UNCHANGED <<scoring, SCORING_MATRIX, enc_base, scoreVars, encVars, fmtVars,
                   file1, file2, matrix, i, j, log, out>>

\* step 2, _compute_matrix: the zero matrix
AllocMatrix ==
    /\ pc = "alloc"
    /\ matrix' = ZeroMatrix(Len(f1_arms), Len(f2_arms))
    /\ i' = 1 /\ j' = 1
    /\ pc' = "loop"
    /\ UNCHANGED <<scoring, SCORING_MATRIX, enc_base, scoreVars, encVars, fmtVars,
                   file1, file2, f1_arms, f2_arms, log, out, err>>

\* variant: the loops are nested the other way round, j over f2_arms outside
ComputeCell_j_outer ==
    /\ pc = "loop"
    /\ i <= Len(f1_arms)
    /\ j <= Len(f2_arms)
    /\ LET r == score_seqs(scoring, SCORING_MATRIX,
                           f1_arms[i].tvr_consensus_encoded,
                           f2_arms[j].tvr_consensus_encoded)
       IN  IF r.status # "ok"
           THEN /\ pc' = "loop_failed" /\ err' = r.status
                /\ UNCHANGED <<matrix, i, j, log>>
           ELSE /\ matrix' = [matrix EXCEPT ![j][i] = r.final_score]
                /\ log' = IF FracGt(r.final_score, SCORE_LOG_THRESHOLD(scoring))
                          THEN Append(log, [f1 |-> i, f2 |-> j,
                                            a1 |-> fmt_allele(f1_arms[i]),
                                            a2 |-> fmt_allele(f2_arms[j]),
                                            score |-> r.final_score])
                          ELSE log
                /\ IF i < Len(f1_arms)
                   THEN i' = i + 1 /\ j' = j
                   ELSE i' = (IF j < Len(f2_arms) THEN 1 ELSE i + 1) /\ j' = j + 1
                /\ UNCHANGED <<pc, err>>
    /\ UNCHANGED <<scoring, SCORING_MATRIX, enc_base, scoreVars, encVars, fmtVars,
                   file1, file2, f1_arms, f2_arms, out>>

\* step 2, _compute_matrix: one iteration of the inner loop, i over f1_arms
\* outside, j over f2_arms inside.  A log record holds what the first
\* logger.info call of a high-scoring cell reports: the two alleles and the score.
ComputeCell ==
    /\ pc = "loop"
    /\ i <= Len(f1_arms)
    /\ j <= Len(f2_arms)
    /\ LET r == score_seqs(scoring, SCORING_MATRIX,
                           f1_arms[i].tvr_consensus_encoded,
                           f2_arms[j].tvr_consensus_encoded)
       IN  IF r.status # "ok"
           THEN /\ pc' = "loop_failed" /\ err' = r.status
                /\ UNCHANGED <<matrix, i, j, log>>
           ELSE /\ matrix' = [matrix EXCEPT ![j][i] = r.final_score]
                /\ log' = IF FracGt(r.final_score, SCORE_LOG_THRESHOLD(scoring))
                          THEN Append(log, [f1 |-> i, f2 |-> j,
                                            a1 |-> fmt_allele(f1_arms[i]),
                                            a2 |-> fmt_allele(f2_arms[j]),
                                            score |-> r.final_score])
                          ELSE log
                /\ IF j < Len(f2_arms)
                   THEN i' = i /\ j' = j + 1
                   ELSE i' = i + 1 /\ j' = 1
                /\ UNCHANGED <<pc, err>>
    /\ UNCHANGED <<scoring, SCORING_MATRIX, enc_base, scoreVars, encVars, fmtVars,
                   file1, file2, f1_arms, f2_arms, out>>

\* step 2, _compute_matrix: both loops are exhausted, return matrix
ComputeReturn ==
    /\ pc = "loop"
    /\ (i > Len(f1_arms) \/ Len(f2_arms) = 0)
    /\ pc' = "write"
    /\ UNCHANGED <<scoring, SCORING_MATRIX, enc_base, scoreVars, encVars, fmtVars,
                   file1, file2, f1_arms, f2_arms, matrix, i, j, log, out, err>>

\* step 3: _write_outfile opens out_file and writes the header and every row
WriteOutfile ==
    /\ pc = "write"
    /\ out' = OutTable(f1_arms, f2_arms, matrix)
    /\ pc' = "done"
    /\ UNCHANGED <<scoring, SCORING_MATRIX, enc_base, scoreVars, encVars, fmtVars,
                   file1, file2, f1_arms, f2_arms, matrix, i, j, log, err>>

Next ==
    \/ ReadSampleFiles
    \/ AllocMatrix
    \/ ComputeCell
    \/ ComputeReturn
    \/ WriteOutfile

Spec == Init /\ [][Next]_vars

----------------------------------------------------------------------------
(* Properties of score_seqs, checked under SpecScore *)

Scored == result.status # "none"

OverAlphabet(s) == \A k \in 1..Len(s) : s[k] \in Alphabet

\* the letters a policy treats as dubious (Scoring1 has none)
Dubious(p) == IF p = 2 THEN DUBIOUS_LETTERS ELSE {}

\* the score of aligning s against an identical copy under matrix m, letter by letter
SelfMatchSum(m, s) == SumSeq([k \in 1..Len(s) |-> m[s[k]][s[k]]])

\* C1: for both policies and any two non-empty sequences over the alphabet,
\* score_seqs returns a similarity in [0.0, 1.0]: it is never negative, and the
\* raw alignment score never exceeds the normalizer of the query sequence.
C1_SimilarityInUnitInterval ==
    (Scored /\ OverAlphabet(seq1) /\ OverAlphabet(seq2)) =>
        /\ result.status = "ok"
        /\ result.total > 0
        /\ result.raw <= result.total
        /\ result.final_score[2] > 0
        /\ 0 <= result.final_score[1]
        /\ result.final_score[1] <= result.final_score[2]

\* a poor alignment: the raw score is negative and the floor reports 0.0
C1_Witness ==
    /\ Scored /\ result.status = "ok"
    /\ Len(seq1) # Len(seq2)
    /\ result.raw < 0
    /\ result.final_score = <<0, 1>>

\* C2: score_seqs(a, b) returns the same similarity as score_seqs(b, a), for
\* every pair of non-empty alphabet sequences, equal lengths included.
C2_Symmetric ==
    (Scored /\ result.status = "ok") =>
        result.final_score =
            score_seqs(scoring, SCORING_MATRIX, seq2, seq1).final_score

\* C3: a sequence made only of letters whose self-match weight is the base
\* match score scores exactly 1.0 against itself, under both policies.
C3_SelfComparisonIsOne ==
    (/\ Scored
     /\ seq1 = seq2
     /\ \A k \in 1..Len(seq1) : /\ seq1[k] \in Alphabet
                                /\ SCORING_MATRIX[seq1[k]][seq1[k]] = MATCH_SCORE) =>
        /\ result.status = "ok"
        /\ result.final_score = <<1, 1>>

C3_Witness ==
    /\ Scored /\ scoring = 2
    /\ seq1 = seq2 /\ Len(seq1) >= 2
    /\ \E k \in 1..Len(seq1) : seq1[k] # seq1[1]
    /\ \A k \in 1..Len(seq1) : SCORING_MATRIX[seq1[k]][seq1[k]] = MATCH_SCORE
    /\ result.final_score = <<1, 1>>

\* C9: in the matrix each policy builds, every letter's self-match score is at
\* least the mismatch score, and the canonical letter's self-match score is
\* strictly below that of every non-canonical, non-dubious letter.
C9_MatrixDeweighting ==
    /\ \A x \in Alphabet : SCORING_MATRIX[x][x] >= MISMATCH_SCORE
    /\ \A x \in (Alphabet \ {CANONICAL_LETTER}) \ Dubious(scoring) :
           SCORING_MATRIX[CANONICAL_LETTER][CANONICAL_LETTER] < SCORING_MATRIX[x][x]

\* the policy-2 matrix in use: canonical 1, dubious 2, plain 5
C9_Witness ==
    /\ Scored /\ scoring = 2
    /\ SCORING_MATRIX[CANONICAL_LETTER][CANONICAL_LETTER] = CANONICAL_MATCH_SCORE
    /\ SCORING_MATRIX["V"]["V"] = DUBIOUS_MATCH_SCORE
    /\ SCORING_MATRIX["D"]["D"] = MATCH_SCORE

\* C10: the normalizer equals the sum over the query's letters of their self-match
\* weight in the policy's matrix, i.e. the score of the query against itself, for
\* both policies, Scoring2 queries with dubious letters included.
C10_NormalizerIsSelfMatch ==
    (Scored /\ result.status = "ok") =>
        LET qs == QueryOf(seq1, seq2)
        IN  /\ result.total = SelfMatchSum(SCORING_MATRIX, qs)
            /\ result.total = nw_score(qs, qs, GAP_OPEN_PENALTY(scoring),
                                       GAP_EXTEND_PENALTY(scoring), SCORING_MATRIX)

----------------------------------------------------------------------------
(* Properties of encode_seq, checked under SpecEncode *)

Encoded == enc_out # <<>>

\* positions where a maximal run of equal letters starts
RunStarts(s) == {k \in 1..Len(s) : k = 1 \/ s[k] # s[k - 1]}

\* length of the maximal run that starts at k
RunLenAt(s, k) ==
    LET e == CHOOSE e \in k..Len(s) :
                 /\ \A l \in k..e : s[l] = s[k]
                 /\ (e = Len(s) \/ s[e + 1] # s[k])
    IN  e - k + 1

\* start of the n-th maximal run
NthRun(s, n) == CHOOSE k \in RunStarts(s) : Cardinality({l \in RunStarts(s) : l <= k}) = n

\* every run of the input is re-emitted, in order, as 1 + round(log_b(n)) copies
RunsReEmitted(sin, sout, base) ==
    /\ Cardinality(RunStarts(sout)) = Cardinality(RunStarts(sin))
    /\ \A n \in 1..Cardinality(RunStarts(sin)) :
           /\ sout[NthRun(sout, n)] = sin[NthRun(sin, n)]
           /\ RunLenAt(sout, NthRun(sout, n)) =
                  1 + RoundLog(RunLenAt(sin, NthRun(sin, n)), base)

\* C8 as stated: for every non-empty s and every log base b > 1, encode_seq(s)
\* is non-empty and no longer than s.
C8_NeverLongerAnyBase ==
    (Encoded /\ enc_base[1] > enc_base[2]) =>
        /\ Len(enc_out) >= 1
        /\ Len(enc_out) <= Len(enc_in)

\* C8 (amended): for every non-empty s and every log base b >= 2 (the policies
\* use 4 and 5), encode_seq(s) is non-empty and no longer than s; each maximal
\* run of length n is re-emitted as 1 + round(log_b(n)) copies, at most n.
C8_NeverLongerBaseTwoUp ==
    (Encoded /\ enc_base[1] >= 2 * enc_base[2]) =>
        /\ Len(enc_out) >= 1
        /\ Len(enc_out) <= Len(enc_in)
        /\ RunsReEmitted(enc_in, enc_out, enc_base)
        /\ \A k \in RunStarts(enc_in) :
               1 + RoundLog(RunLenAt(enc_in, k), enc_base) <= RunLenAt(enc_in, k)

\* a base-4 encoding that shortens a sequence of several runs
C8_Witness ==
    /\ Encoded
    /\ enc_base = <<4, 1>>
    /\ Cardinality(RunStarts(enc_in)) >= 2
    /\ \E k \in RunStarts(enc_in) : RunLenAt(enc_in, k) >= 3
    /\ Len(enc_out) < Len(enc_in)

----------------------------------------------------------------------------
(* Properties of compare_samples, checked under Spec *)

Loaded == pc \in {"alloc", "loop", "loop_failed", "write", "done"}

\* a row that is not excluded: no tvr_len column, or one that is not "0"
Qualifies(r) == r.tvr_len = Absent \/ r.tvr_len # "0"

QualIdx(file) == {k \in 1..Len(file) : Qualifies(file[k])}

\* index in the file of the n-th qualifying row
NthQual(file, n) ==
    CHOOSE k \in QualIdx(file) : Cardinality({l \in QualIdx(file) : l <= k}) = n

\* arms holds one record per qualifying row of file, in input order
LoadedFrom(arms, file) ==
    /\ Len(arms) = Cardinality(QualIdx(file))
    /\ \A n \in 1..Len(arms) :
           /\ arms[n].allele_id = file[NthQual(file, n)].allele_id
           /\ arms[n].tvr_consensus = file[NthQual(file, n)].tvr_consensus

\* the chromosome-arm column is missing under both spellings
LacksArm(r) == r.hash_chr = Absent /\ r.chr = Absent

HasArmlessRow(file) == \E k \in QualIdx(file) : LacksArm(file[k])

HasUnknown(s) == \E k \in 1..Len(s) : s[k] \notin Alphabet

\* C4: the matrix has |sample-2 alleles| rows and |sample-1 alleles| columns and,
\* once _compute_matrix returned, cell [j][i] is score_seqs(allele i of sample 1,
\* allele j of sample 2); the written table has the header of sample-1 labels and
\* one row per sample-2 allele: its label, then that row's scores.
C4_MatrixAndTable ==
    /\ pc \in {"write", "done"} =>
           /\ Len(matrix) = Len(f2_arms)
           /\ \A jj \in 1..Len(f2_arms) :
                  /\ Len(matrix[jj]) = Len(f1_arms)
                  /\ \A ii \in 1..Len(f1_arms) :
                         matrix[jj][ii] =
                             score_seqs(scoring, SCORING_MATRIX,
                                        f1_arms[ii].tvr_consensus_encoded,
                                        f2_arms[jj].tvr_consensus_encoded).final_score
    /\ pc = "done" =>
           /\ Len(out) = 1 + Len(f2_arms)
           /\ out[1] = <<"">> \o [k \in 1..Len(f1_arms) |->
                                      <<f1_arms[k].allele_id, f1_arms[k].arm>>]
           /\ \A jj \in 1..Len(f2_arms) :
                  out[jj + 1] = << <<f2_arms[jj].allele_id, f2_arms[jj].arm>> >>
                                \o matrix[jj]

\* a written 2 x 2 table of distinct alleles whose matrix is not symmetric
C4_Witness ==
    /\ pc = "done"
    /\ Len(f1_arms) = 2 /\ Len(f2_arms) = 2
    /\ f1_arms[1] # f1_arms[2]
    /\ f1_arms # f2_arms
    /\ matrix[1][2] # matrix[2][1]
    /\ Len(out) = 3

\* C5: loading keeps, in input order, one record for every row except those
\* whose tvr_len is present and equal to "0"; a row without tvr_len is kept and
\* is no error.
C5_LoadKeepsQualifyingRows ==
    /\ Loaded => /\ LoadedFrom(f1_arms, file1)
                 /\ LoadedFrom(f2_arms, file2)
    /\ pc = "read_failed" =>
           \E k \in QualIdx(file1 \o file2) : ArmOf((file1 \o file2)[k]) = ""

\* a file with a tvr_len-free row and an excluded row was loaded
C5_Witness ==
    /\ Loaded
    /\ \E k \in 1..Len(file1) : file1[k].tvr_len = Absent
    /\ \E k \in 1..Len(file1) : file1[k].tvr_len = "0"
    /\ Len(f1_arms) = 1
    /\ Len(f2_arms) = 2

\* C6: a sequence with a letter outside the alphabet is loaded without error and
\* then makes scoring fail, under either policy, as query or as database: no
\* comparison that scores such a sequence runs to completion.
C6_UnknownLetterFailsScoring ==
    (/\ Loaded
     /\ Len(f1_arms) > 0 /\ Len(f2_arms) > 0
     /\ \E k \in 1..Len(f1_arms \o f2_arms) :
            HasUnknown((f1_arms \o f2_arms)[k].tvr_consensus_encoded)) =>
        pc \notin {"write", "done"}

\* C7: a kept row without the chromosome-arm column under both spellings makes
\* compare_samples fail before anything is written; no failure in loading or
\* scoring leaves output behind.
C7_MissingArmAborts ==
    /\ (pc # "read" /\ (HasArmlessRow(file1) \/ HasArmlessRow(file2))) =>
           /\ pc = "read_failed"
           /\ err = "ValueError"
           /\ out = NoFile
    /\ pc \in {"read_failed", "loop_failed"} => out = NoFile
    /\ out # NoFile => pc = "done"

\* the first file loads, a kept row of the second lacks the arm column
C7_Witness ==
    /\ pc = "read_failed"
    /\ err = "ValueError"
    /\ Len(file1) >= 1
    /\ ~HasArmlessRow(file1)
    /\ HasArmlessRow(file2)
    /\ out = NoFile

----------------------------------------------------------------------------
(* Order of the log records, checked under Spec *)

\* C11 as stated: the records of high-scoring cells appear row-major by sample-2
\* index and then sample-1 index: every logged pair of sample-2 allele j comes
\* before any logged pair of sample-2 allele j + 1.
C11_LogOrderSample2Major ==
    \A a \in 1..Len(log) : \A b \in 1..Len(log) :
        a < b => \/ log[a].f2 < log[b].f2
                 \/ (log[a].f2 = log[b].f2 /\ log[a].f1 < log[b].f1)

\* C11 (amended): the records appear in a deterministic order that is major by
\* sample-1 index and then sample-2 index: every logged pair of sample-1 allele i
\* comes before any logged pair of sample-1 allele i + 1, and each record is that
\* of a cell above the policy's threshold.
C11_LogOrderSample1Major ==
    /\ \A a \in 1..Len(log) : \A b \in 1..Len(log) :
           a < b => \/ log[a].f1 < log[b].f1
                    \/ (log[a].f1 = log[b].f1 /\ log[a].f2 < log[b].f2)
    /\ \A a \in 1..Len(log) :
           /\ log[a].f1 \in 1..Len(f1_arms)
           /\ log[a].f2 \in 1..Len(f2_arms)
           /\ FracGt(log[a].score, SCORE_LOG_THRESHOLD(scoring))
    /\ pc \in {"write", "done"} =>
           \A ii \in 1..Len(f1_arms) : \A jj \in 1..Len(f2_arms) :
               FracGt(matrix[jj][ii], SCORE_LOG_THRESHOLD(scoring)) =>
                   \E a \in 1..Len(log) : log[a].f1 = ii /\ log[a].f2 = jj

\* a finished 2 x 2 comparison that logged a pair of the second sample-2 allele
\* before a pair of the first
C11_Witness ==
    /\ pc = "done"
    /\ Len(f1_arms) = 2 /\ Len(f2_arms) = 2
    /\ Len(log) >= 3
    /\ \E a \in 1..Len(log) : \E b \in 1..Len(log) :
           a < b /\ log[a].f2 > log[b].f2 /\ log[a].f1 < log[b].f1

----------------------------------------------------------------------------
(* Properties of _fmt_alignment, checked under SpecFmt *)

Formatted == fmt_out.status # "none"

\* the operation codes the formatter has a branch for
HandledOps == {0, 7, 8, 1, 2, 3, 4}

TraceOps == {decode_cigar(fmt_cigar)[k][1] : k \in 1..Len(fmt_cigar)}

\* C12: any operation code other than 0, 7, 8, 1, 2, 3 and 4 is a fatal
\* unsupported-operation error: no trace holding such a code yields a formatted
\* alignment.
C12_UnsupportedOpIsFatal ==
    (Formatted /\ ~(TraceOps \subseteq HandledOps)) => fmt_out.status # "ok"

\* C13: whenever the formatter returns, its three lines have equal length and the
\* trace consumed exactly the characters of the query and of the database; a
\* trace that consumes more or fewer makes the formatter fail.
C13_ReturnsOnlyWhenSynchronized ==
    (Formatted /\ fmt_out.status = "ok") =>
        /\ Len(fmt_out.lines[1]) = Len(fmt_out.lines[2])
        /\ Len(fmt_out.lines[2]) = Len(fmt_out.lines[3])
        /\ fmt_out.s1 = <<>>
        /\ fmt_out.s2 = <<>>

====
